---- MODULE Spec2Model ----
(***************************************************************************)
(* Model of src/main.py: a Telegram bot (aiogram) that records every new   *)
(* chat member in a Google Sheet (gspread), notifies an administrator,     *)
(* sends a daily digest (apscheduler) and serves a liveness endpoint       *)
(* (aiohttp).  Everything runs on one asyncio event loop: a coroutine      *)
(* owns the loop from one await to the next, and the gspread calls are     *)
(* synchronous, so they are made while the loop is owned.                  *)
(***************************************************************************)
EXTENDS Integers, Sequences, FiniteSets, TLC

VARIABLES
    TOKEN,          \* BOT_TOKEN is present in the environment
    ADMIN_ID,       \* ADMIN_ID is present in the environment
    G_SHEETS_KEY,   \* G_SHEETS_KEY is present in the environment
    mainPc,         \* position of main()
    schedStarted,   \* scheduler.start() has been called
    webPc,          \* position of start_web_server()
    polling,        \* dp.start_polling(bot) is running
    running,        \* the task that owns the event loop, or NoTask
    clock,          \* wall clock, in ticks
    sheet,          \* data rows of the worksheet, in sheet order
    joins,          \* on_user_join invocations
    nJoins,         \* number of on_user_join invocations created
    report,         \* the send_daily_report job instance
    nReports,       \* number of firings of the job so far
    outbox,         \* bot.send_message calls made, in call order
    failed,         \* indices of outbox whose delivery raised
    escaped,        \* triggers whose coroutine ended with an exception
    errlog,         \* logging.error calls: <<trigger, site>>
    healthPending,  \* a GET / is waiting for the liveness endpoint
    unhandled       \* first update the filter rejected: <<old, new>>

vars == <<TOKEN, ADMIN_ID, G_SHEETS_KEY, mainPc, schedStarted, webPc, polling,
          running, clock, sheet, joins, nJoins, report, nReports, outbox,
          failed, escaped, errlog, healthPending, unhandled>>

(***************************************************************************)
(* Bounds of the model.                                                    *)
(***************************************************************************)
\* on_user_join invocations in a run of the whole program
MaxJoins == 1
\* on_user_join invocations in the runs that interleave several of them
MaxRaceJoins == 2
\* firings of the daily job
MaxReports == 1
\* last tick of the clock
MaxClock == 3

JoinSlots == IF MaxJoins > MaxRaceJoins THEN MaxJoins ELSE MaxRaceJoins

\* One tick of the model clock is half a day.
TicksPerDay == 2

NoTask == <<"none", 0>>
MainTask == <<"main", 0>>
JoinTask(i) == <<"join", i>>
ReportTask(k) == <<"report", k>>

(***************************************************************************)
(* aiogram.filters.chat_member_updated: status markers and transitions.    *)
(* A chat member is [status, is_member]; only a restricted member has the  *)
(* is_member attribute ("yes"/"no"), for the others getattr gives None.    *)
(***************************************************************************)
Statuses == {"creator", "administrator", "member", "restricted", "left", "kicked"}

ChatMembers ==
    {[status |-> s, is_member |-> "none"] : s \in Statuses \ {"restricted"}}
    \cup {[status |-> "restricted", is_member |-> m] : m \in {"yes", "no"}}

Marker(name) == [name |-> name, is_member |-> "any"]
Neg(marker) == [marker EXCEPT !.is_member = "no"]

MEMBER == Marker("member")
RESTRICTED == Marker("restricted")
LEFT == Marker("left")
KICKED == Marker("kicked")

MarkerCheck(marker, member) ==
    IF marker.is_member # "any" /\ member.is_member # marker.is_member
    THEN FALSE
    ELSE marker.name = member.status

GroupCheck(group, member) == \E marker \in group : MarkerCheck(marker, member)

IS_NOT_MEMBER_NoRestricted == {LEFT, KICKED}

IS_NOT_MEMBER == {LEFT, KICKED, Neg(RESTRICTED)}

\* member_status_changed = IS_NOT_MEMBER >> MEMBER
JoinTransition == [old |-> IS_NOT_MEMBER, new |-> {MEMBER}]

ChatMemberUpdatedFilter(old, new) ==
    GroupCheck(JoinTransition.old, old) /\ GroupCheck(JoinTransition.new, new)

(***************************************************************************)
(* Updates delivered by Telegram.                                          *)
(***************************************************************************)
Users ==
    { [id |-> 42, username |-> "alice", full_name |-> "Alice A"],
      [id |-> 7,  username |-> "",      full_name |-> ""] }

Chats == {"chat_a", "chat_b"}

Member(s) == [status |-> s, is_member |-> "none"]

AllUpdates ==
    [chat : Chats, old : ChatMembers, new : ChatMembers, user : Users]

\* The updates drawn while the whole program runs: one user joins or leaves.
SomeUpdates ==
    { u \in AllUpdates :
        /\ u.user.id = 42 /\ u.chat = "chat_a"
        /\ \/ u.old = Member("left") /\ u.new = Member("member")
           \/ u.old = Member("member") /\ u.new = Member("left") }

\* Every membership transition Telegram can report, for one user and chat.
FilterUpdates == { u \in AllUpdates : u.user.id = 42 /\ u.chat = "chat_a" }

\* A user joins: every user, every chat the bot is in.
HandlerUpdates ==
    { u \in AllUpdates : u.old = Member("left") /\ u.new = Member("member") }

\* The updates drawn when several joins are in progress at once.
RaceUpdates ==
    { u \in SomeUpdates : u.old = Member("left") /\ u.new = Member("member") }

(***************************************************************************)
(* datetime.now(_tz()) and strftime.  Day 0 of the model is 31.12.2025.    *)
(***************************************************************************)
DayOf(t) == t \div TicksPerDay
SecondOfDay(t) == (t % TicksPerDay) * (86400 \div TicksPerDay)

\* strftime("%d.%m.%Y") of the day with number n, as <<dd, mm, yyyy>>
DateStr(n) == IF n <= 0 THEN <<31 + n, 12, 2025>> ELSE <<n, 1, 2026>>

\* strftime("%H:%M:%S"), as <<HH, MM, SS>>
TimeStr(t) ==
    LET s == SecondOfDay(t)
    IN  <<s \div 3600, (s % 3600) \div 60, s % 60>>

date_str(now) == DateStr(DayOf(now))
time_str(now) == TimeStr(now)
full_name(user) == IF user.full_name # "" THEN user.full_name ELSE "No name"
username(user) == IF user.username # "" THEN "@" \o user.username ELSE ""
user_id(user) == ToString(user.id)

RowWithoutUsername(user, now) ==
    <<date_str(now), time_str(now), user_id(user), full_name(user), "">>

\* the list given to append_row (line 103)
Row(user, now) ==
    <<date_str(now), time_str(now), user_id(user), full_name(user), username(user)>>

JoinText(user, now, sheet_status) ==
    <<"join", full_name(user), username(user), user_id(user),
      date_str(now), time_str(now), sheet_status>>

(***************************************************************************)
(* gspread                                                                 *)
(***************************************************************************)
\* get_sheet(): None without the key or when opening the sheet raises
GetSheetResults == IF G_SHEETS_KEY THEN {TRUE, FALSE} ELSE {FALSE}

OverwriteLastRow(s, row) ==
    IF s = <<>> THEN <<row>> ELSE [s EXCEPT ![Len(s)] = row]

InsertRowFirst(s, row) == <<row>> \o s

\* worksheet.append_row(row)
AppendRow(s, row) == Append(s, row)

\* worksheet.get_all_records(): record.get of the date column (the first one)
RecordDate(record) == record[1]

CountDate(records, d) ==
    Cardinality({k \in 1..Len(records) : RecordDate(records[k]) = d})

(***************************************************************************)
(* Initial state: the process has just been started.                       *)
(***************************************************************************)
IdleJoin ==
    [pc |-> "idle", chat |-> "chat_a", old |-> Member("left"),
     new |-> Member("member"), user |-> CHOOSE u \in Users : u.id = 42,
     now |-> 0, sheet_status |-> "none", rowIx |-> 0, msgIx |-> 0]

IdleReport == [pc |-> "idle", read |-> FALSE, readLen |-> 0, msgIx |-> 0]

Init ==
    /\ TOKEN \in BOOLEAN
    /\ ADMIN_ID \in BOOLEAN
    /\ G_SHEETS_KEY \in BOOLEAN
    /\ mainPc = "start"
    /\ schedStarted = FALSE
    /\ webPc = "none"
    /\ polling = FALSE
    /\ running = MainTask
    /\ clock = 0
    /\ sheet = <<>>
    /\ joins = [i \in 1..JoinSlots |-> IdleJoin]
    /\ nJoins = 0
    /\ report = IdleReport
    /\ nReports = 0
    /\ outbox = <<>>
    /\ failed = {}
    /\ escaped = {}
    /\ errlog = {}
    /\ healthPending = FALSE
    /\ unhandled = <<>>

(***************************************************************************)
(* main()                                                                  *)
(***************************************************************************)
Send(trigger, text) == outbox' = Append(outbox, [trigger |-> trigger, text |-> text])

ConfigFatalNever == FALSE

\* the configuration check that ends the process
ConfigFatal == ~TOKEN

\* if not TOKEN: sys.exit(...); else Bot, Dispatcher, scheduler.start()
MainStart ==
    /\ mainPc = "start" /\ running = MainTask
    /\ IF ConfigFatal
       THEN /\ mainPc' = "exited"
            /\ running' = NoTask
            /\ UNCHANGED schedStarted
       ELSE /\ mainPc' = "startup_check"
            /\ schedStarted' = TRUE
            /\ UNCHANGED running
    /\ UNCHANGED <<TOKEN, ADMIN_ID, G_SHEETS_KEY, webPc, polling, clock, sheet,
                   joins, nJoins, report, nReports, outbox, failed, escaped,
                   errlog, healthPending, unhandled>>

\* if ADMIN_ID: sheet = get_sheet(); await bot.send_message(...)
MainStartupCheck ==
    /\ mainPc = "startup_check" /\ running = MainTask
    /\ IF ADMIN_ID
       THEN \E ws \in GetSheetResults :
              /\ Send(MainTask, IF ws THEN <<"startup_ok">> ELSE <<"startup_error">>)
              /\ mainPc' = "startup_sending"
              /\ running' = NoTask
       ELSE /\ mainPc' = "gather_ready"
            /\ UNCHANGED <<outbox, running>>
    /\ UNCHANGED <<TOKEN, ADMIN_ID, G_SHEETS_KEY, schedStarted, webPc, polling,
                   clock, sheet, joins, nJoins, report, nReports, failed,
                   escaped, errlog, healthPending, unhandled>>

\* the awaited send_message returns or raises; except Exception: logging.error
MainStartupSendDone ==
    /\ mainPc = "startup_sending" /\ running = NoTask
    /\ \E ok \in BOOLEAN :
         IF ok THEN UNCHANGED <<failed, errlog>>
         ELSE /\ failed' = failed \cup {k \in 1..Len(outbox) : outbox[k].trigger = MainTask}
              /\ errlog' = errlog \cup {<<MainTask, "send">>}
    /\ mainPc' = "gather_ready"
    /\ running' = MainTask
    /\ UNCHANGED <<TOKEN, ADMIN_ID, G_SHEETS_KEY, schedStarted, webPc, polling,
                   clock, sheet, joins, nJoins, report, nReports, outbox,
                   escaped, healthPending, unhandled>>

\* await asyncio.gather(start_web_server(), dp.start_polling(bot))
MainGather ==
    /\ mainPc = "gather_ready" /\ running = MainTask
    /\ mainPc' = "gather"
    /\ webPc' = "setup"
    /\ polling' = TRUE
    /\ running' = NoTask
    /\ UNCHANGED <<TOKEN, ADMIN_ID, G_SHEETS_KEY, schedStarted, clock, sheet,
                   joins, nJoins, report, nReports, outbox, failed, escaped,
                   errlog, healthPending, unhandled>>

(***************************************************************************)
(* start_web_server() and the liveness endpoint                            *)
(***************************************************************************)
\* runner.setup(); site.start(); then wait forever
WebSetup ==
    /\ webPc = "setup" /\ running = NoTask
    /\ webPc' = "listening"
    /\ UNCHANGED <<TOKEN, ADMIN_ID, G_SHEETS_KEY, mainPc, schedStarted, polling,
                   running, clock, sheet, joins, nJoins, report, nReports,
                   outbox, failed, escaped, errlog, healthPending, unhandled>>

\* the hosting platform probes GET /
HealthArrive ==
    /\ webPc = "listening" /\ ~healthPending
    /\ healthPending' = TRUE
    /\ UNCHANGED <<TOKEN, ADMIN_ID, G_SHEETS_KEY, mainPc, schedStarted, webPc,
                   polling, running, clock, sheet, joins, nJoins, report,
                   nReports, outbox, failed, escaped, errlog, unhandled>>

\* the request handler runs on the event loop, when no task owns it
HealthServe ==
    /\ webPc = "listening" /\ healthPending /\ running = NoTask
    /\ healthPending' = FALSE
    /\ UNCHANGED <<TOKEN, ADMIN_ID, G_SHEETS_KEY, mainPc, schedStarted, webPc,
                   polling, running, clock, sheet, joins, nJoins, report,
                   nReports, outbox, failed, escaped, errlog, unhandled>>

\* time passes
Tick ==
    /\ mainPc # "exited" /\ clock < MaxClock
    /\ clock' = clock + 1
    /\ UNCHANGED <<TOKEN, ADMIN_ID, G_SHEETS_KEY, mainPc, schedStarted, webPc,
                   polling, running, sheet, joins, nJoins, report, nReports,
                   outbox, failed, escaped, errlog, healthPending, unhandled>>

(***************************************************************************)
(* The dispatcher and on_user_join                                         *)
(***************************************************************************)
\* polling receives a chat_member update; the router applies the filter and,
\* when it passes, the handler is called in a task of its own.  A rejected
\* update changes nothing in the program; the first one is kept in unhandled.
Deliver(u, limit) ==
    /\ polling /\ running = NoTask
    /\ IF ChatMemberUpdatedFilter(u.old, u.new)
       THEN /\ nJoins < limit
            /\ nJoins' = nJoins + 1
            /\ joins' = [joins EXCEPT ![nJoins + 1] =
                           [IdleJoin EXCEPT !.pc = "ready", !.chat = u.chat,
                              !.old = u.old, !.new = u.new, !.user = u.user]]
            /\ UNCHANGED unhandled
       ELSE /\ unhandled = <<>>
            /\ unhandled' = <<u.old, u.new>>
            /\ UNCHANGED <<joins, nJoins>>
    /\ UNCHANGED <<TOKEN, ADMIN_ID, G_SHEETS_KEY, mainPc, schedStarted, webPc,
                   polling, running, clock, sheet, report, nReports, outbox,
                   failed, escaped, errlog, healthPending>>

\* lines 88-99: now = datetime.now(_tz()), the strings, sheet_status
JoinStart(i) ==
    /\ joins[i].pc = "ready" /\ running = NoTask
    /\ joins' = [joins EXCEPT ![i].pc = "running", ![i].now = clock,
                              ![i].sheet_status = "not_written"]
    /\ running' = JoinTask(i)
    /\ UNCHANGED <<TOKEN, ADMIN_ID, G_SHEETS_KEY, mainPc, schedStarted, webPc,
                   polling, clock, sheet, nJoins, report, nReports, outbox,
                   failed, escaped, errlog, healthPending, unhandled>>

SheetStatusOptimistic(ws, appended) == IF ws THEN "saved" ELSE "not_found"

\* sheet_status after lines 100-109
SheetStatus(ws, appended) ==
    IF ws THEN (IF appended THEN "saved" ELSE "write_error") ELSE "not_found"

\* lines 100-109: worksheet = get_sheet(); worksheet.append_row([...])
JoinStore(i) ==
    /\ joins[i].pc = "running" /\ running = JoinTask(i)
    /\ \E ws \in GetSheetResults, appended \in BOOLEAN :
         /\ appended => ws
         /\ IF appended
            THEN /\ sheet' = AppendRow(sheet, Row(joins[i].user, joins[i].now))
                 /\ UNCHANGED errlog
            ELSE /\ UNCHANGED sheet
                 /\ errlog' = IF ws THEN errlog \cup {<<JoinTask(i), "append">>}
                              ELSE errlog \cup {<<JoinTask(i), "get_sheet">>}
         /\ joins' = [joins EXCEPT ![i].pc = "stored",
                        ![i].sheet_status = SheetStatus(ws, appended),
                        ![i].rowIx = IF appended THEN Len(sheet) + 1 ELSE 0]
    /\ UNCHANGED <<TOKEN, ADMIN_ID, G_SHEETS_KEY, mainPc, schedStarted, webPc,
                   polling, running, clock, nJoins, report, nReports, outbox,
                   failed, escaped, healthPending, unhandled>>

\* lines 111-120: if ADMIN_ID: await bot.send_message(int(ADMIN_ID), text)
JoinNotify(i) ==
    /\ joins[i].pc = "stored" /\ running = JoinTask(i)
    /\ IF ADMIN_ID
       THEN /\ Send(JoinTask(i),
                    JoinText(joins[i].user, joins[i].now, joins[i].sheet_status))
            /\ joins' = [joins EXCEPT ![i].pc = "sending",
                                      ![i].msgIx = Len(outbox) + 1]
       ELSE /\ joins' = [joins EXCEPT ![i].pc = "done"]
            /\ UNCHANGED outbox
    /\ running' = NoTask
    /\ UNCHANGED <<TOKEN, ADMIN_ID, G_SHEETS_KEY, mainPc, schedStarted, webPc,
                   polling, clock, sheet, nJoins, report, nReports, failed,
                   escaped, errlog, healthPending, unhandled>>

\* lines 119-122: the awaited send_message returns, or raises and is logged
JoinSendDone(i) ==
    /\ joins[i].pc = "sending" /\ running = NoTask
    /\ \E ok \in BOOLEAN :
         IF ok THEN UNCHANGED <<failed, errlog>>
         ELSE /\ failed' = failed \cup {joins[i].msgIx}
              /\ errlog' = errlog \cup {<<JoinTask(i), "send">>}
    /\ joins' = [joins EXCEPT ![i].pc = "done"]
    /\ UNCHANGED <<TOKEN, ADMIN_ID, G_SHEETS_KEY, mainPc, schedStarted, webPc,
                   polling, running, clock, sheet, nJoins, report, nReports,
                   outbox, escaped, healthPending, unhandled>>

(***************************************************************************)
(* send_daily_report, run by the scheduler (one instance at a time)        *)
(***************************************************************************)
\* the cron trigger fires; lines 50-51: if not ADMIN_ID: return
ReportFire ==
    /\ schedStarted /\ running = NoTask
    /\ report.pc \in {"idle", "done"} /\ nReports < MaxReports
    /\ nReports' = nReports + 1
    /\ IF ADMIN_ID
       THEN /\ report' = [IdleReport EXCEPT !.pc = "running"]
            /\ running' = ReportTask(nReports + 1)
       ELSE /\ report' = [IdleReport EXCEPT !.pc = "done"]
            /\ UNCHANGED running
    /\ UNCHANGED <<TOKEN, ADMIN_ID, G_SHEETS_KEY, mainPc, schedStarted, webPc,
                   polling, clock, sheet, joins, nJoins, outbox, failed,
                   escaped, errlog, healthPending, unhandled>>

\* lines 53-56: worksheet = get_sheet(); without it one message, then return
ReportGetSheet ==
    /\ report.pc = "running" /\ running = ReportTask(nReports)
    /\ \E ws \in GetSheetResults :
         IF ws
         THEN /\ report' = [report EXCEPT !.pc = "reading"]
              /\ UNCHANGED <<outbox, running>>
         ELSE /\ Send(ReportTask(nReports), <<"no_sheet">>)
              /\ report' = [report EXCEPT !.pc = "sending_no_sheet",
                                          !.msgIx = Len(outbox) + 1]
              /\ running' = NoTask
    /\ UNCHANGED <<TOKEN, ADMIN_ID, G_SHEETS_KEY, mainPc, schedStarted, webPc,
                   polling, clock, sheet, joins, nJoins, nReports, failed,
                   escaped, errlog, healthPending, unhandled>>

\* yesterday = (datetime.now(_tz()) - timedelta(days=1)).strftime("%d.%m.%Y")
yesterday(now) == DateStr(DayOf(now) - 1)

\* lines 72-77: the digest text
DigestText(all_records, now) ==
    <<"digest", yesterday(now), CountDate(all_records, yesterday(now)),
      Len(all_records)>>

\* lines 58-79, and 82-84 when get_all_records raises
ReportRead ==
    /\ report.pc = "reading" /\ running = ReportTask(nReports)
    /\ \E readable \in BOOLEAN :
         IF readable
         THEN /\ Send(ReportTask(nReports), DigestText(sheet, clock))
              /\ report' = [report EXCEPT !.pc = "sending_digest", !.read = TRUE,
                              !.readLen = Len(sheet), !.msgIx = Len(outbox) + 1]
              /\ UNCHANGED errlog
         ELSE /\ errlog' = errlog \cup {<<ReportTask(nReports), "report">>}
              /\ Send(ReportTask(nReports), <<"report_error">>)
              /\ report' = [report EXCEPT !.pc = "sending_error",
                                          !.msgIx = Len(outbox) + 1]
    /\ running' = NoTask
    /\ UNCHANGED <<TOKEN, ADMIN_ID, G_SHEETS_KEY, mainPc, schedStarted, webPc,
                   polling, clock, sheet, joins, nJoins, nReports, failed,
                   escaped, healthPending, unhandled>>

\* an awaited send_message of send_daily_report returns or raises: the one of
\* line 79 is inside the try, so its failure is logged and line 84 sends
\* again; the ones of lines 55 and 84 are outside, so their failure leaves
\* the coroutine
ReportSendDone ==
    /\ report.pc \in {"sending_digest", "sending_error", "sending_no_sheet"}
    /\ running = NoTask
    /\ \E ok \in BOOLEAN :
         IF ok
         THEN /\ report' = [report EXCEPT !.pc = "done"]
              /\ UNCHANGED <<failed, errlog, escaped, outbox>>
         ELSE /\ failed' = failed \cup {report.msgIx}
              /\ IF report.pc = "sending_digest"
                 THEN /\ errlog' = errlog \cup {<<ReportTask(nReports), "report">>}
                      /\ Send(ReportTask(nReports), <<"report_error">>)
                      /\ report' = [report EXCEPT !.pc = "sending_error",
                                                  !.msgIx = Len(outbox) + 1]
                      /\ UNCHANGED escaped
                 ELSE /\ escaped' = escaped \cup {ReportTask(nReports)}
                      /\ report' = [report EXCEPT !.pc = "done"]
                      /\ UNCHANGED <<errlog, outbox>>
    /\ UNCHANGED <<TOKEN, ADMIN_ID, G_SHEETS_KEY, mainPc, schedStarted, webPc,
                   polling, running, clock, sheet, joins, nJoins, nReports,
                   healthPending, unhandled>>

(***************************************************************************)
(* Specifications                                                          *)
(***************************************************************************)
\* The whole program.
Next ==
    \/ MainStart
    \/ MainStartupCheck
    \/ MainStartupSendDone
    \/ MainGather
    \/ WebSetup
    \/ HealthArrive
    \/ HealthServe
    \/ Tick
    \/ \E u \in SomeUpdates : Deliver(u, MaxJoins)
    \/ \E i \in 1..JoinSlots : JoinStart(i)
    \/ \E i \in 1..JoinSlots : JoinStore(i)
    \/ \E i \in 1..JoinSlots : JoinNotify(i)
    \/ \E i \in 1..JoinSlots : JoinSendDone(i)
    \/ ReportFire
    \/ ReportGetSheet
    \/ ReportRead
    \/ ReportSendDone

Spec == Init /\ [][Next]_vars

\* The dispatcher on every membership transition Telegram can report.
NextFilter ==
    \/ MainStart
    \/ MainStartupCheck
    \/ MainStartupSendDone
    \/ MainGather
    \/ \E u \in FilterUpdates : Deliver(u, MaxJoins)
    \/ \E i \in 1..JoinSlots : JoinStart(i)
    \/ \E i \in 1..JoinSlots : JoinStore(i)
    \/ \E i \in 1..JoinSlots : JoinNotify(i)
    \/ \E i \in 1..JoinSlots : JoinSendDone(i)

SpecFilter == Init /\ [][NextFilter]_vars

\* on_user_join for every user and chat.
NextHandler ==
    \/ MainStart
    \/ MainStartupCheck
    \/ MainStartupSendDone
    \/ MainGather
    \/ Tick
    \/ \E u \in HandlerUpdates : Deliver(u, MaxJoins)
    \/ \E i \in 1..JoinSlots : JoinStart(i)
    \/ \E i \in 1..JoinSlots : JoinStore(i)
    \/ \E i \in 1..JoinSlots : JoinNotify(i)
    \/ \E i \in 1..JoinSlots : JoinSendDone(i)

SpecHandler == Init /\ [][NextHandler]_vars

\* Several on_user_join invocations in progress at once, while time passes.
NextJoins ==
    \/ MainStart
    \/ MainStartupCheck
    \/ MainStartupSendDone
    \/ MainGather
    \/ Tick
    \/ \E u \in RaceUpdates : Deliver(u, MaxRaceJoins)
    \/ \E i \in 1..JoinSlots : JoinStart(i)
    \/ \E i \in 1..JoinSlots : JoinStore(i)
    \/ \E i \in 1..JoinSlots : JoinNotify(i)
    \/ \E i \in 1..JoinSlots : JoinSendDone(i)

SpecJoins == Init /\ [][NextJoins]_vars

\* Startup, the scheduler and the liveness endpoint, with no chat events.
NextStartup ==
    \/ MainStart
    \/ MainStartupCheck
    \/ MainStartupSendDone
    \/ MainGather
    \/ WebSetup
    \/ HealthArrive
    \/ HealthServe
    \/ Tick
    \/ ReportFire
    \/ ReportGetSheet
    \/ ReportRead
    \/ ReportSendDone

SpecStartup == Init /\ [][NextStartup]_vars

(***************************************************************************)
(* Properties                                                              *)
(***************************************************************************)
Started(i) == joins[i].pc # "idle"
Handled(i) == joins[i].pc \in {"sending", "done"}
Sends(trigger) == {k \in 1..Len(outbox) : outbox[k].trigger = trigger}
JoinSends == {k \in 1..Len(outbox) : outbox[k].trigger[1] = "join"}

\* The statement of the join classifier: left or kicked to member or restricted.
ClaimedJoin(old, new) ==
    old.status \in {"left", "kicked"} /\ new.status \in {"member", "restricted"}

\* What the registered filter accepts: left, kicked or restricted-and-absent
\* to member.
AcceptedJoin(old, new) ==
    /\ \/ old.status \in {"left", "kicked"}
       \/ old.status = "restricted" /\ old.is_member = "no"
    /\ new.status = "member"

\* Rows and join notifications exist only for invocations of the handler.
OnlyHandlerWrites ==
    /\ Len(sheet) <= Cardinality({i \in 1..JoinSlots : Started(i)})
    /\ \A k \in JoinSends : Started(outbox[k].trigger[2])

\* C1 as stated: on_user_join is triggered exactly for old in {left, kicked}
\* and new in {member, restricted}; any other transition appends no row and
\* sends no notification.
C1_Original ==
    /\ \A i \in 1..JoinSlots : Started(i) => ClaimedJoin(joins[i].old, joins[i].new)
    /\ unhandled # <<>> => ~ClaimedJoin(unhandled[1], unhandled[2])
    /\ OnlyHandlerWrites

\* C1 amended: on_user_join is triggered exactly when the old status is left,
\* kicked, or restricted with is_member false, and the new status is member;
\* any other transition appends no row and sends no notification.
C1_Filter ==
    /\ \A i \in 1..JoinSlots : Started(i) => AcceptedJoin(joins[i].old, joins[i].new)
    /\ unhandled # <<>> => ~AcceptedJoin(unhandled[1], unhandled[2])
    /\ OnlyHandlerWrites

C1_Witness ==
    /\ unhandled = <<Member("left"), [status |-> "restricted", is_member |-> "yes"]>>
    /\ joins[1].pc = "done"
    /\ joins[1].old = [status |-> "restricted", is_member |-> "no"]
    /\ Len(sheet) = 1

\* The strings that carry a user's id, full name and username.
Carries(user, id_s, name_s, uname_s) ==
    /\ id_s = ToString(user.id)
    /\ user.full_name # "" => name_s = user.full_name
    /\ user.username # "" => uname_s = "@" \o user.username

\* C2: one accepted join event, with the sheet reachable and ADMIN_ID set,
\* appends exactly one row and sends exactly one notification; both carry the
\* user's id, full name and username; nothing is sent before the append
\* attempt has finished.
C2_OneRowOneNotification ==
    /\ Len(sheet) = Cardinality({i \in 1..JoinSlots : joins[i].rowIx > 0})
    /\ \A i \in 1..JoinSlots :
         /\ ~Handled(i) => Sends(JoinTask(i)) = {}
         /\ Sends(JoinTask(i)) # {} =>
              joins[i].sheet_status \in {"saved", "write_error", "not_found"}
         /\ (ADMIN_ID /\ Handled(i) /\ joins[i].rowIx > 0) =>
              /\ Cardinality(Sends(JoinTask(i))) = 1
              /\ joins[i].rowIx <= Len(sheet)
              /\ LET row == sheet[joins[i].rowIx]
                     text == outbox[joins[i].msgIx].text
                 IN  /\ outbox[joins[i].msgIx].trigger = JoinTask(i)
                     /\ Carries(joins[i].user, row[3], row[4], row[5])
                     /\ Carries(joins[i].user, text[4], text[2], text[3])

C2_Witness ==
    /\ ADMIN_ID /\ joins[1].pc = "done" /\ joins[1].rowIx = 1
    /\ joins[1].user.id = 42
    /\ sheet[1][5] = "@alice"
    /\ outbox[joins[1].msgIx].text[3] = "@alice"
    /\ joins[1].msgIx \notin failed

\* C3: when storage is unavailable (no key, get_sheet gives None, or
\* append_row raises) the handler goes on: with ADMIN_ID set the notification
\* is attempted exactly once, and its status annotation reports success
\* exactly when append_row returned without raising.
C3_StorageFailureAnnotated ==
    \A i \in 1..JoinSlots :
      /\ JoinTask(i) \notin escaped
      /\ joins[i].pc = "stored" => ENABLED JoinNotify(i)
      /\ (ADMIN_ID /\ Handled(i)) =>
           /\ Cardinality(Sends(JoinTask(i))) = 1
           /\ LET status == outbox[joins[i].msgIx].text[7]
              IN  /\ status = "saved" <=> joins[i].rowIx > 0
                  /\ joins[i].rowIx = 0 => status \in {"write_error", "not_found"}

C3_Witness ==
    /\ ADMIN_ID /\ G_SHEETS_KEY /\ joins[1].pc = "done" /\ joins[1].rowIx = 0
    /\ sheet = <<>>
    /\ outbox[joins[1].msgIx].text[7] = "write_error"

\* C4: wherever a notification is sent, a delivery failure is caught and
\* logged, is followed by no other delivery attempt for the same trigger, and
\* does not leave the handler or callback.
C4_DeliveryFailureContained ==
    /\ escaped = {}
    /\ \A k \in failed :
         /\ \E e \in errlog : e[1] = outbox[k].trigger
         /\ \A k2 \in 1..Len(outbox) : k2 > k => outbox[k2].trigger # outbox[k].trigger

\* C5: a firing of send_daily_report with ADMIN_ID set and the sheet readable
\* sends exactly one notification, and it carries the number of rows dated
\* yesterday and the number of all rows.
C5_OneDigest ==
    (ADMIN_ID /\ report.pc = "done" /\ report.read) =>
      LET S == Sends(ReportTask(nReports))
      IN  /\ Cardinality(S) = 1
          /\ \A k \in S :
               LET text == outbox[k].text
               IN  /\ text[1] = "digest"
                   /\ text[3] = Cardinality({r \in 1..report.readLen :
                                               sheet[r][1] = text[2]})
                   /\ text[4] = report.readLen

\* The digest itself: the first message of a firing that read the sheet has
\* the two counts of the rows read.
DigestCounts ==
    report.read =>
      LET S == Sends(ReportTask(nReports))
          k == CHOOSE k \in S : \A k2 \in S : k <= k2
          text == outbox[k].text
      IN  /\ S # {}
          /\ text[1] = "digest"
          /\ text[3] = Cardinality({r \in 1..report.readLen : sheet[r][1] = text[2]})
          /\ text[4] = report.readLen

\* C6 as stated: with the token or the administrator id missing, the
\* scheduler, the liveness endpoint and polling are never started.
C6_Original ==
    (~TOKEN \/ ~ADMIN_ID) => (~schedStarted /\ webPc = "none" /\ ~polling)

\* C6 amended: with the token missing, main exits before the scheduler, the
\* liveness endpoint and polling are started; with the token present the
\* process does not exit at startup, whether or not ADMIN_ID is set.
C6_TokenFatal ==
    /\ ~TOKEN => /\ ~schedStarted /\ webPc = "none" /\ ~polling
                 /\ mainPc \in {"start", "exited"}
    /\ TOKEN => mainPc # "exited"

C6_Witness ==
    ~TOKEN /\ mainPc = "exited" /\ ~schedStarted /\ webPc = "none"

\* C7: while on_user_join or send_daily_report is in progress, a pending
\* health-check request can be served.
C7_LivenessNotBlocked ==
    (webPc = "listening" /\ healthPending) => ENABLED HealthServe

\* the one chat the bot is meant to watch
MonitoredChat == "chat_a"

\* C8: a qualifying transition in a chat other than the monitored one appends
\* no row and sends no notification.
C8_OtherChatsIgnored ==
    \A i \in 1..JoinSlots :
      joins[i].chat # MonitoredChat =>
        joins[i].rowIx = 0 /\ Sends(JoinTask(i)) = {}

\* C9: with several invocations in progress at once, every invocation whose
\* append_row returned has its own row in the sheet: none is lost or
\* overwritten.
C9_NoLostAppend ==
    LET A == {i \in 1..JoinSlots : joins[i].rowIx > 0}
    IN  /\ Len(sheet) = Cardinality(A)
        /\ \A i \in A :
             /\ joins[i].rowIx <= Len(sheet)
             /\ sheet[joins[i].rowIx][1] = DateStr(DayOf(joins[i].now))
             /\ sheet[joins[i].rowIx][2] = TimeStr(joins[i].now)
             /\ sheet[joins[i].rowIx][3] = ToString(joins[i].user.id)
        /\ \A i, j \in A : i # j => joins[i].rowIx # joins[j].rowIx

C9_Witness ==
    /\ joins[1].pc = "sending" /\ joins[2].pc = "sending"
    /\ joins[1].rowIx > 0 /\ joins[2].rowIx > 0
    /\ Len(sheet) = 2

\* the day a row's date column denotes, and the second of its time column
DayKey(row) == (row[1][3] * 12 + row[1][2]) * 31 + row[1][1]
SecKey(row) == row[2][1] * 3600 + row[2][2] * 60 + row[2][3]

\* the timestamp of r1 is not later than that of r2
NotLater(r1, r2) ==
    \/ DayKey(r1) < DayKey(r2)
    \/ DayKey(r1) = DayKey(r2) /\ SecKey(r1) <= SecKey(r2)

\* C10: the timestamps of the rows are non-decreasing in sheet order.
C10_TimestampsMonotone ==
    \A k \in 1..(Len(sheet) - 1) : NotLater(sheet[k], sheet[k + 1])

C10_Witness ==
    /\ Len(sheet) = 2
    /\ sheet[1][1] = <<31, 12, 2025>> /\ sheet[2][1] = <<1, 1, 2026>>
    /\ joins[1].pc = "sending" /\ joins[2].pc = "sending"

====
